---- MODULE Spec2Model ----
(***************************************************************************)
(* Session / token-refresh / login-flow module of the HTTP Toolkit UI      *)
(* (src/unnamed/part_000, lines 1-248).                                    *)
(*                                                                         *)
(* JavaScript is single threaded: every action below is one run-to-        *)
(* completion turn (an exported function call, an event-emitter dispatch,  *)
(* a mutex callback, a network callback).  Time is Date.now() in ms.       *)
(***************************************************************************)
EXTENDS Integers, Sequences, FiniteSets, TLC

\* ---------------------------------------------------------------- bounds
MaxCalls  == 2      \* getToken() calls made during a run
MaxIssued == 3      \* access tokens the identity provider issues during a run
MaxTicks  == 1      \* clock advances during a run
MaxFlows  == 1      \* showLoginDialog() calls during a run
MaxQueue  == 2      \* waiters of tokenMutex when logOut() is called
MaxRestarts == 1    \* reloads of the module during a run

\* Clock advances (ms) and server-declared lifetimes (s) that put
\* timeUntilExpiry on both sides of, and exactly on, the two thresholds.
TickSet      == {1000}
ExpiresInSet == {5, 6, 601}

\* ------------------------------------------------------ program constants
RefreshThreshold == 1000 * 60 * 10     \* part_000:148
UsableThreshold  == 1000 * 5           \* part_000:151

\* ------------------------------------------------------------ the state
VARIABLES
    now,          \* Date.now()
    ticks,        \* number of clock advances so far
    tokens,       \* the module variable `tokens`: <<>> is null, <<t>> an object
    lsTokens,     \* localStorage['tokens']: <<>> absent, <<json>> a JSON text
    tokenMutex,   \* waiters of tokenMutex in FIFO order; the head holds it
    awaiting,     \* the getToken() call whose callback awaits its refresh, or 0
    inflight,     \* refresh-token requests sent and not yet answered
    ncalls,       \* getToken() calls made so far
    issued,       \* access tokens issued so far by the identity provider
    lockShown,    \* the login widget is on screen
    lockHiding,   \* the widget has a 'hide' event still to emit
    listeners,    \* loginEvents: per event, the once-listeners of login flows
    promise,      \* per showLoginDialog() call: the state of its promise
    nflows,       \* showLoginDialog() calls made so far
    lastJwt,      \* localStorage['last_jwt']: <<>> absent, <<s>> the string s
    fetches,      \* entitlement GETs sent and not yet answered
    got,          \* observation: the latest getLatestUserData() result
    reqs,         \* observation: per getLatestUserData() call, last_jwt at
                  \* its start and what its token or fetch request came to
    restarts,     \* reloads of the module so far
    seen,         \* observation: the latest getToken() callback and its result
    want,         \* observation: what the latest login or logout asked the
                  \* store to hold, and the getToken() call awaiting its
                  \* refresh at that time
    auth,         \* observation: the latest 'authenticated' payload
    first         \* observation: per flow, the first terminal event emitted

vars == <<now, ticks, tokens, lsTokens, tokenMutex, awaiting, inflight,
          ncalls, issued, lockShown, lockHiding, listeners, promise, nflows,
          lastJwt, fetches, got, reqs, restarts, seen, want, auth, first>>

tokenVars == <<tokens, lsTokens>>
mutexVars == <<tokenMutex, awaiting>>
dataVars  == <<lastJwt, fetches, got, reqs>>
callVars  == <<inflight, ncalls, seen, dataVars>>
lockVars  == <<lockShown, lockHiding, nflows>>
flowVars  == <<listeners, promise, first>>
loginVars == <<lockVars, flowVars>>
obsVars   == <<want, auth, restarts>>

\* ------------------------------------------------------------ JS values
Null == <<>>
Some(v) == <<v>>

TokenSet(rt, at, exp) ==
    [refreshToken |-> rt, accessToken |-> at, accessTokenExpiry |-> exp]

\* A JSON text is modelled by its members in the order they are written:
\* <<>> is the text "null", <<<<key, value>>, ...>> an object.
\* JSON.stringify(tokens): null, or the own properties of the object in
\* creation order (two strings and a finite number, written as they are).
JSONStringify(t) ==
    IF t = Null
    THEN Some(<<>>)
    ELSE Some(<< <<"refreshToken", t[1].refreshToken>>,
                 <<"accessToken", t[1].accessToken>>,
                 <<"accessTokenExpiry", t[1].accessTokenExpiry>> >>)

\* The value of member `key` of a parsed object text.
Member(text, key) ==
    LET i == CHOOSE j \in DOMAIN text : text[j][1] = key IN text[i][2]

\* JSON.parse(localStorage.getItem('tokens')!): a missing key reads as null
\* and JSON.parse(null) is null.
JSONParse(item) ==
    IF item = <<>> \/ item[1] = <<>>
    THEN Null
    ELSE Some([refreshToken      |-> Member(item[1], "refreshToken"),
               accessToken       |-> Member(item[1], "accessToken"),
               accessTokenExpiry |-> Member(item[1], "accessTokenExpiry")])

\* Results of a getToken() promise.
Pending      == [kind |-> "pending",   val |-> 0, err |-> ""]
Undefined    == [kind |-> "undefined", val |-> 0, err |-> ""]
Token(at)    == [kind |-> "token",     val |-> at, err |-> ""]
Rejected(e)  == [kind |-> "rejected",  val |-> 0, err |-> e]

\* ------------------------------------------------- loginEvents (59-69)
Flows == 1..MaxFlows

\* The events showLoginDialog() listens for with once().
TerminalEvents ==
    {"user_data_loaded", "hide", "unrecoverable_error", "authorization_error"}

Unsettled     == [st |-> "pending",  val |-> FALSE, err |-> ""]
Resolved(b)   == [st |-> "resolved", val |-> b,     err |-> ""]
RejectedBy(e) == [st |-> "rejected", val |-> FALSE, err |-> e]

\* Mutants: 'hide' resolves true; the error events resolve false.
OutcomeHideResolvesTrue(event, data) ==
    CASE event \in {"user_data_loaded", "hide"} -> Resolved(TRUE)
      [] OTHER                                  -> RejectedBy(data)
OutcomeErrorsResolveFalse(event, data) ==
    CASE event = "user_data_loaded" -> Resolved(TRUE)
      [] OTHER                      -> Resolved(FALSE)

\* What the listener showLoginDialog() registered for `event` does (79-83).
Outcome(event, data) ==
    CASE event = "user_data_loaded" -> Resolved(TRUE)
      [] event = "hide"             -> Resolved(FALSE)
      [] OTHER                      -> RejectedBy(data)

\* Mutant: a later resolve()/reject() replaces the outcome.
SettlePromiseAgain(p, outcome) == outcome

\* resolve()/reject() of a promise: only the first call has an effect.
SettlePromise(p, outcome) == IF p.st = "pending" THEN outcome ELSE p

\* EventEmitter.once: the listener is removed when its event is emitted.
RemoveOnce(ls, event) == [ls EXCEPT ![event] = {}]

\* loginEvents.emit(event, data), as far as the once-listeners of the login
\* flows go: each one registered for `event` runs and is removed.
EmitToFlows(event, data) ==
    /\ promise' = [f \in Flows |->
                     IF f \in listeners[event]
                     THEN SettlePromise(promise[f], Outcome(event, data))
                     ELSE promise[f]]
    /\ listeners' = RemoveOnce(listeners, event)

\* Observation: for each flow already started, the first terminal event
\* emitted since its showLoginDialog().
Observe(event, data) ==
    first' = [f \in Flows |->
                IF f <= nflows /\ first[f].event = ""
                THEN [event |-> event, data |-> data]
                ELSE first[f]]

\* auth0Lock.hide(): a widget on screen closes and will emit 'hide'.
LockHide ==
    IF lockShown
    THEN lockShown' = FALSE /\ lockHiding' = TRUE
    ELSE UNCHANGED <<lockShown, lockHiding>>

\* ------------------------------------------- parseUserData (215-234)
\* A User: email is <<>> when undefined, subscription <<>> when undefined.
EmptyUser == [email |-> <<>>, subscription |-> <<>>]

\* The signed tokens of the model and the app data each one carries; a
\* number 0 or a string "" stands for a field the payload lacks.
GoodJwts == {"jwt_pro", "jwt_free", "jwt_noexpiry", "jwt_unknownplan"}

AppData(userJwt) ==
    CASE userJwt = "jwt_pro" ->
           [email |-> "pro", subscription_id |-> 7,
            subscription_plan_id |-> 1, subscription_expiry |-> 9]
      [] userJwt = "jwt_noexpiry" ->
           [email |-> "noexpiry", subscription_id |-> 7,
            subscription_plan_id |-> 1, subscription_expiry |-> 0]
      [] userJwt = "jwt_unknownplan" ->
           [email |-> "unknownplan", subscription_id |-> 7,
            subscription_plan_id |-> 2, subscription_expiry |-> 9]
      [] OTHER ->
           [email |-> "free", subscription_id |-> 0,
            subscription_plan_id |-> 0, subscription_expiry |-> 0]

\* jwt.verify(userJwt, AUTH0_DATA_PUBLIC_KEY, {algorithms, audience, issuer})
\* returns the payload of a token signed for this audience and issuer, and
\* throws on any other string.
Verifies(userJwt) == userJwt \in GoodJwts

\* getSubscriptionPlanCode(id), of ./subscriptions: the plan code of a
\* known plan id, undefined ("") otherwise.
getSubscriptionPlanCode(id) == IF id = 1 THEN "pro" ELSE ""

\* _.every(subscription): every value of the object is truthy.  A number is
\* truthy unless 0, a string unless empty, a Date object always.
EverySubscription(sub) == sub.id # 0 /\ sub.plan # ""

\* parseUserData(userJwt): `threw` tells that jwt.verify threw.
parseUserData(userJwt) ==
    IF userJwt = <<>> \/ userJwt = <<"">>
    THEN [threw |-> FALSE, user |-> EmptyUser]
    ELSE IF ~Verifies(userJwt[1])
    THEN [threw |-> TRUE, user |-> EmptyUser]
    ELSE LET appData == AppData(userJwt[1])
             subscription ==
                 [id |-> appData.subscription_id,
                  plan |-> getSubscriptionPlanCode(appData.subscription_plan_id),
                  expiry |-> [date |-> appData.subscription_expiry]]
         IN [threw |-> FALSE,
             user |-> [email |-> Some(appData.email),
                       subscription |-> IF EverySubscription(subscription)
                                        THEN Some(subscription) ELSE <<>>]]

\* getLastUserData() (183-190): a token that does not parse gives {}.
getLastUserData ==
    IF parseUserData(lastJwt).threw THEN EmptyUser
    ELSE parseUserData(lastJwt).user

\* ------------------------------------------ getLatestUserData (200-213)
\* `failed` tells that the catch block ran, `err` the error it reported
\* with reportError and emitted as 'authorization_error'.
\* `waiting` are the login flows whose promise was pending at that time.
NotGot == [call |-> 0, user |-> EmptyUser, failed |-> FALSE, err |-> "",
           waiting |-> {}]

Waiting == {f \in 1..nflows : promise[f] = Unsettled}

\* Observation of a getLatestUserData() call: `jwt` is last_jwt when the
\* call started; `answer` what its request came to: "no_token" (getToken()
\* gave undefined), "refresh_error", "network_error", or "body" with the
\* response body.
NoAnswer == [kind |-> "none", body |-> ""]
NotAsked == [jwt |-> <<>>, answer |-> NoAnswer]
Answered(c, kind, body) ==
    reqs' = [reqs EXCEPT ![c].answer = [kind |-> kind, body |-> body]]

\* Mutant: the catch block returns the last user data as stored now.
CaughtReadsStorageAgain(c, lastUserData, e) ==
    /\ got' = [call |-> c, user |-> getLastUserData, failed |-> TRUE,
               err |-> e, waiting |-> Waiting]
    /\ EmitToFlows("authorization_error", e)
    /\ Observe("authorization_error", e)
    /\ UNCHANGED lastJwt

\* The catch block: the error is reported, 'authorization_error' is emitted
\* with it, and lastUserData is returned.
Caught(c, lastUserData, e) ==
    /\ got' = [call |-> c, user |-> lastUserData, failed |-> TRUE, err |-> e,
               waiting |-> Waiting]
    /\ EmitToFlows("authorization_error", e)
    /\ Observe("authorization_error", e)
    /\ UNCHANGED lastJwt

\* Mutant: the response is stored before it is verified.
LoadedStoresFirst(c, lastUserData, userJwt) ==
    IF parseUserData(Some(userJwt)).threw
    THEN /\ got' = [call |-> c, user |-> lastUserData, failed |-> TRUE,
                    err |-> "verify_error", waiting |-> Waiting]
         /\ EmitToFlows("authorization_error", "verify_error")
         /\ Observe("authorization_error", "verify_error")
         /\ lastJwt' = Some(userJwt)
    ELSE /\ lastJwt' = Some(userJwt)
         /\ got' = [call |-> c, user |-> parseUserData(Some(userJwt)).user,
                    failed |-> FALSE, err |-> "", waiting |-> Waiting]
         /\ UNCHANGED flowVars

\* Lines 205-207, with userJwt the string requestUserData() resolved to.
Loaded(c, lastUserData, userJwt) ==
    IF parseUserData(Some(userJwt)).threw
    THEN Caught(c, lastUserData, "verify_error")
    ELSE /\ lastJwt' = Some(userJwt)
         /\ got' = [call |-> c, user |-> parseUserData(Some(userJwt)).user,
                    failed |-> FALSE, err |-> "", waiting |-> Waiting]
         /\ UNCHANGED flowVars

\* What the result of getToken() does in the caller w stands for:
\* requestUserData() (236-248) inside the try block of getLatestUserData().
Continue(w, result) ==
    IF w.then = "none"
    THEN UNCHANGED <<dataVars, flowVars>>
    ELSE CASE result.kind = "undefined" ->
                 /\ Loaded(w.call, w.last, "")
                 /\ Answered(w.call, "no_token", "")
                 /\ UNCHANGED fetches
           [] result.kind = "token" ->
                 /\ fetches' = fetches \cup
                       {[call |-> w.call, token |-> result.val, last |-> w.last]}
                 /\ UNCHANGED <<lastJwt, got, reqs, flowVars>>
           [] OTHER ->
                 /\ Caught(w.call, w.last, result.err)
                 /\ Answered(w.call, "refresh_error", "")
                 /\ UNCHANGED fetches

\* ------------------------------------------------------------ tokenMutex
\* async-mutex: acquire() queues a ticket, the head of the queue holds the
\* mutex, release() dispatches the next ticket.  runExclusive(cb) releases
\* when the value cb returned has settled.
\* A getToken() waiter carries its caller's continuation: `then` is
\* "userdata" for the call made by getLatestUserData(), whose lastUserData
\* is `last`, and "none" when the caller is left out.
SetWaiter(t) ==
    [op |-> "set", val |-> t, call |-> 0, then |-> "none", last |-> EmptyUser]
GetWaiter(c, then, last) ==
    [op |-> "get", val |-> Null, call |-> c, then |-> then, last |-> last]

Acquire(q, w) == Append(q, w)
Release(q) == Tail(q)

\* The holder's callback has not run yet.
CanRun(op) ==
    /\ tokenMutex # <<>>
    /\ Head(tokenMutex).op = op
    /\ awaiting = 0

\* runExclusive runs the holder's callback as a promise job, and promise
\* jobs run before the next task: no call, event, timer or network answer
\* comes in between.  Every other turn waits for the job queue to be empty.
JobsDone == tokenMutex = <<>> \/ awaiting # 0

\* Mutant: the lifetime in seconds is added to the time in milliseconds.
ExpiryWithoutMs(expiresIn) == now + expiresIn

\* Date.now() + (expiresIn * 1000), lines 115 and 133.
Expiry(expiresIn) == now + (expiresIn * 1000)

\* ---------------------------------------------------- setTokens (104-109)
\* setTokens(newTokens): queue the store update on the mutex.
setTokens(newTokens) ==
    tokenMutex' = Acquire(tokenMutex, SetWaiter(newTokens))

\* Observation of a login or logout asking for the store to hold t.
Asked(t) == want' = [val |-> t, during |-> awaiting]

\* Mutant: the store update forgets to write localStorage.
RunSetTokensNotPersisted ==
    /\ CanRun("set")
    /\ tokens' = Head(tokenMutex).val
    /\ tokenMutex' = Release(tokenMutex)
    /\ UNCHANGED <<now, ticks, lsTokens, awaiting, callVars, issued,
                   loginVars, obsVars>>

\* The callback of setTokens, run while holding the mutex.
RunSetTokens ==
    /\ CanRun("set")
    /\ tokens' = Head(tokenMutex).val
    /\ lsTokens' = JSONStringify(Head(tokenMutex).val)
    /\ tokenMutex' = Release(tokenMutex)
    /\ UNCHANGED <<now, ticks, awaiting, callVars, issued, loginVars, obsVars>>

\* ------------------------------------------------------ getToken (141-160)
\* What a getToken() callback saw and did: whether tokens existed, the time
\* until expiry, the cached access token, the refresh requests it sent,
\* its result, and whether its refresh was still unanswered at the result.
NotSeen == [call |-> 0, hadTokens |-> FALSE, tue |-> 0, cached |-> 0,
            sent |-> 0, result |-> Pending, early |-> FALSE]

\* A caller invokes getToken(): runExclusive queues the callback.
GetToken ==
    /\ JobsDone
    /\ ncalls < MaxCalls
    /\ ncalls' = ncalls + 1
    /\ tokenMutex' = Acquire(tokenMutex, GetWaiter(ncalls + 1, "none", EmptyUser))
    /\ UNCHANGED <<now, ticks, tokenVars, awaiting, inflight, seen, dataVars,
                   issued, loginVars, obsVars>>

\* getLatestUserData() up to its first await: lastUserData is read, and
\* requestUserData() calls getToken().
getLatestUserData ==
    /\ JobsDone
    /\ ncalls < MaxCalls
    /\ ncalls' = ncalls + 1
    /\ tokenMutex' = Acquire(tokenMutex,
                             GetWaiter(ncalls + 1, "userdata", getLastUserData))
    /\ reqs' = [reqs EXCEPT ![ncalls + 1] = [jwt |-> lastJwt,
                                             answer |-> NoAnswer]]
    /\ UNCHANGED <<now, ticks, tokenVars, awaiting, inflight, seen, lastJwt,
                   fetches, got, issued, loginVars, obsVars>>

TimeUntilExpiry == tokens[1].accessTokenExpiry - now

\* Mutants: the refresh is started only for a token that is not usable;
\* the refresh is started whatever the expiry.
NeedsRefreshWhenUnusable(timeUntilExpiry) == timeUntilExpiry <= UsableThreshold
NeedsRefreshAlways(timeUntilExpiry) == TRUE

\* refreshToken() is called when the token is expired or close (10 mins).
NeedsRefresh(timeUntilExpiry) == timeUntilExpiry < RefreshThreshold

\* Mutant: a token with exactly 5 seconds left counts as usable.
UsableAtThreshold(timeUntilExpiry) == timeUntilExpiry >= UsableThreshold

\* The token is good for now.
Usable(timeUntilExpiry) == timeUntilExpiry > UsableThreshold

\* refreshToken() up to the request (122-128): sends tokens.refreshToken.
RefreshRequest(c) == [call |-> c, rt |-> tokens[1].refreshToken]

\* The callback of getToken, run while holding the mutex.
RunGetToken ==
    /\ CanRun("get")
    /\ LET c == Head(tokenMutex).call IN
       IF tokens = Null
       THEN /\ seen' = [NotSeen EXCEPT !.call = c, !.result = Undefined]
            /\ tokenMutex' = Release(tokenMutex)
            /\ Continue(Head(tokenMutex), Undefined)
            /\ UNCHANGED <<awaiting, inflight>>
       ELSE LET tue == TimeUntilExpiry
                obs == [NotSeen EXCEPT !.call = c, !.hadTokens = TRUE,
                            !.tue = tue, !.cached = tokens[1].accessToken,
                            !.sent = Cardinality(inflight' \ inflight)]
            IN
            /\ inflight' = IF NeedsRefresh(tue)
                           THEN inflight \cup {RefreshRequest(c)}
                           ELSE inflight
            /\ IF Usable(tue)
               THEN /\ seen' = [obs EXCEPT
                                  !.result = Token(tokens[1].accessToken),
                                  !.early = \E r \in inflight' : r.call = c]
                    /\ tokenMutex' = Release(tokenMutex)
                    /\ Continue(Head(tokenMutex),
                                Token(tokens[1].accessToken))
                    /\ UNCHANGED awaiting
               ELSE /\ seen' = obs
                    /\ awaiting' = c
                    /\ UNCHANGED <<tokenMutex, dataVars, flowVars>>
    /\ UNCHANGED <<now, ticks, tokenVars, ncalls, issued, lockVars, obsVars>>

\* ------------------------------------------- refreshToken callback (129-137)
\* Mutant: the mutex is released only when the awaited refresh succeeds.
SettleHoldsOnError(r, result) ==
    IF awaiting = r.call /\ result.kind # "rejected"
    THEN /\ seen' = IF seen.call = r.call
                    THEN [seen EXCEPT !.result = result]
                    ELSE seen
         /\ awaiting' = 0
         /\ tokenMutex' = Release(tokenMutex)
         /\ Continue(Head(tokenMutex), result)
    ELSE /\ seen' = IF awaiting = r.call /\ seen.call = r.call
                    THEN [seen EXCEPT !.result = result]
                    ELSE seen
         /\ UNCHANGED <<awaiting, tokenMutex, dataVars, flowVars>>

\* Mutant: a rejected refresh rejects the latest getToken() call even when
\* that call is not the one awaiting it.
SettleRejectsLatest(r, result) ==
    IF awaiting = r.call
    THEN /\ seen' = IF seen.call = r.call
                    THEN [seen EXCEPT !.result = result]
                    ELSE seen
         /\ awaiting' = 0
         /\ tokenMutex' = Release(tokenMutex)
         /\ Continue(Head(tokenMutex), result)
    ELSE /\ seen' = IF result.kind = "rejected"
                    THEN [seen EXCEPT !.result = result]
                    ELSE seen
         /\ UNCHANGED <<awaiting, tokenMutex, dataVars, flowVars>>

\* What settling refresh request r does to the getToken() call awaiting it:
\* the callback's promise settles and runExclusive releases the mutex.
Settle(r, result) ==
    IF awaiting = r.call
    THEN /\ seen' = IF seen.call = r.call
                    THEN [seen EXCEPT !.result = result]
                    ELSE seen
         /\ awaiting' = 0
         /\ tokenMutex' = Release(tokenMutex)
         /\ Continue(Head(tokenMutex), result)
    ELSE UNCHANGED <<seen, awaiting, tokenMutex, dataVars, flowVars>>

\* Lines 132-133: the new access token and expiry are written into the
\* object `tokens` refers to when the answer arrives.
Refreshed(t, accessToken, expiresIn) ==
    [t EXCEPT !.accessToken = accessToken,
              !.accessTokenExpiry = Expiry(expiresIn)]

\* Mutant: the refreshed tokens are not written to localStorage.
RefreshSucceedsNotPersisted ==
    \E r \in inflight, expiresIn \in ExpiresInSet :
       /\ JobsDone
       /\ issued < MaxIssued
       /\ issued' = issued + 1
       /\ inflight' = inflight \ {r}
       /\ IF tokens = Null
          THEN UNCHANGED <<tokenVars, seen, awaiting, tokenMutex, dataVars,
                           flowVars>>
          ELSE /\ tokens' = Some(Refreshed(tokens[1], issued + 1, expiresIn))
               /\ UNCHANGED lsTokens
               /\ Settle(r, Token(issued + 1))
       /\ UNCHANGED <<now, ticks, ncalls, lockVars, obsVars>>

\* The token endpoint answers r with a new access token.
RefreshSucceeds ==
    \E r \in inflight, expiresIn \in ExpiresInSet :
       /\ JobsDone
       /\ issued < MaxIssued
       /\ issued' = issued + 1
       /\ inflight' = inflight \ {r}
       /\ IF tokens = Null
          THEN \* tokens!.accessToken = ... throws a TypeError in the
               \* callback: nothing is written and the promise never settles
               UNCHANGED <<tokenVars, seen, awaiting, tokenMutex, dataVars,
                           flowVars>>
          ELSE /\ tokens' = Some(Refreshed(tokens[1], issued + 1, expiresIn))
               /\ lsTokens' = JSONStringify(tokens')
               /\ Settle(r, Token(issued + 1))
       /\ UNCHANGED <<now, ticks, ncalls, lockVars, obsVars>>

\* Mutant: a failed refresh ends the session.
RefreshFailsLogsOut ==
    \E r \in inflight :
       /\ JobsDone
       /\ inflight' = inflight \ {r}
       /\ tokens' = Null
       /\ lsTokens' = JSONStringify(Null)
       /\ Settle(r, Rejected("refresh_error"))
       /\ UNCHANGED <<now, ticks, ncalls, issued, lockVars, obsVars>>

\* The token endpoint answers r with an error.
RefreshFails ==
    \E r \in inflight :
       /\ JobsDone
       /\ inflight' = inflight \ {r}
       /\ Settle(r, Rejected("refresh_error"))
       /\ UNCHANGED <<now, ticks, tokenVars, ncalls, issued, lockVars, obsVars>>

\* ------------------------------------------- requestUserData (240-247)
\* The bodies the entitlement endpoint answers with: a signed token, a
\* string that does not verify, nothing.
Bodies == {"jwt_pro", "forged", ""}

\* The entitlement endpoint answers: the body is parsed and stored.
FetchAnswers ==
    \E f \in fetches, body \in Bodies :
       /\ JobsDone
       /\ fetches' = fetches \ {f}
       /\ Loaded(f.call, f.last, body)
       /\ Answered(f.call, "body", body)
       /\ UNCHANGED <<now, ticks, tokenVars, mutexVars, inflight, ncalls, seen,
                      issued, lockVars, obsVars>>

\* fetch() rejects: the request failed.
FetchFails ==
    \E f \in fetches :
       /\ JobsDone
       /\ fetches' = fetches \ {f}
       /\ Caught(f.call, f.last, "network_error")
       /\ Answered(f.call, "network_error", "")
       /\ UNCHANGED <<now, ticks, tokenVars, mutexVars, inflight, ncalls, seen,
                      issued, lockVars, obsVars>>

\* ------------------------------------------------------------------ clock
Tick ==
    \E d \in TickSet :
       /\ JobsDone
       /\ ticks < MaxTicks
       /\ ticks' = ticks + 1
       /\ now' = now + d
       /\ UNCHANGED <<tokenVars, mutexVars, callVars, issued, loginVars, obsVars>>

\* ------------------------------------------------ showLoginDialog (71-85)
showLoginDialog ==
    /\ JobsDone
    /\ nflows < MaxFlows
    /\ nflows' = nflows + 1
    /\ lockShown' = TRUE
    /\ listeners' = [e \in TerminalEvents |-> listeners[e] \cup {nflows + 1}]
    /\ promise' = [promise EXCEPT ![nflows + 1] = Unsettled]
    /\ UNCHANGED <<now, ticks, tokenVars, mutexVars, callVars, issued,
                   lockHiding, first, obsVars>>

\* ------------------------------------------------------- widget events
\* The refresh token that comes with the k-th access token issued at login
\* (refresh and access tokens are different strings).
RefreshTokenOf(k) == 100 + k

NoAuth == [accessToken |-> 0, refreshToken |-> 0, expiresIn |-> 0, at |-> 0]

\* The widget emits authenticated{accessToken, refreshToken, expiresIn};
\* the listener of lines 111-117 stores the tokens.
Authenticated ==
    \E expiresIn \in ExpiresInSet :
       LET accessToken == issued + 1
           refreshToken == RefreshTokenOf(issued + 1)
       IN
       /\ JobsDone
       /\ lockShown
       /\ issued < MaxIssued
       /\ issued' = issued + 1
       /\ setTokens(Some(TokenSet(refreshToken, accessToken,
                                  Expiry(expiresIn))))
       /\ Asked(Some(TokenSet(refreshToken, accessToken, Expiry(expiresIn))))
       /\ auth' = [accessToken |-> accessToken, refreshToken |-> refreshToken,
                   expiresIn |-> expiresIn, at |-> now]
       /\ UNCHANGED <<now, ticks, tokenVars, awaiting, callVars, loginVars,
                      restarts>>

\* The widget emits 'hide': the user closed it, or hide() was called on it.
Hide ==
    /\ JobsDone
    /\ lockShown \/ lockHiding
    /\ lockShown' = FALSE
    /\ lockHiding' = FALSE
    /\ EmitToFlows("hide", "")
    /\ Observe("hide", "")
    /\ UNCHANGED <<now, ticks, tokenVars, mutexVars, callVars, issued,
                   nflows, obsVars>>

\* The widget emits 'unrecoverable_error' or 'authorization_error'.
WidgetError ==
    \E event \in {"unrecoverable_error", "authorization_error"} :
       /\ JobsDone
       /\ lockShown
       /\ EmitToFlows(event, "widget_error")
       /\ Observe(event, "widget_error")
       /\ UNCHANGED <<now, ticks, tokenVars, mutexVars, callVars, issued,
                      lockShown, lockHiding, nflows, obsVars>>

\* 'user_data_loaded' is emitted on loginEvents: the listener of line 69
\* hides the widget, then the flows' once-listeners run.
UserDataLoaded ==
    /\ JobsDone
    /\ LockHide
    /\ EmitToFlows("user_data_loaded", "")
    /\ Observe("user_data_loaded", "")
    /\ UNCHANGED <<now, ticks, tokenVars, mutexVars, callVars, issued,
                   nflows, obsVars>>

\* ---------------------------------------------------------- logOut (87-89)
\* Mutant: logOut() also cancels the login flows, as a 'hide' would.
logOutCancelsLogin ==
    /\ JobsDone
    /\ Len(tokenMutex) < MaxQueue
    /\ setTokens(Null)
    /\ Asked(Null)
    /\ EmitToFlows("hide", "")
    /\ UNCHANGED <<now, ticks, tokenVars, awaiting, callVars, issued,
                   lockVars, first, auth, restarts>>

\* logOut() emits 'logout'; the listener of line 119 clears the tokens.
logOut ==
    /\ JobsDone
    /\ Len(tokenMutex) < MaxQueue
    /\ setTokens(Null)
    /\ Asked(Null)
    /\ UNCHANGED <<now, ticks, tokenVars, awaiting, callVars, issued,
                   loginVars, auth, restarts>>

\* ---------------------------------------------------------------- reload
\* The page is reloaded and the module initialised again (59-102): the
\* module variables are set as at first load, localStorage stays, and the
\* callbacks and requests of the old page are gone.
Restart ==
    /\ JobsDone
    /\ restarts < MaxRestarts
    /\ restarts' = restarts + 1
    /\ tokens' = JSONParse(lsTokens)
    /\ tokenMutex' = <<>>
    /\ awaiting' = 0
    /\ inflight' = {}
    /\ fetches' = {}
    /\ lockShown' = FALSE
    /\ lockHiding' = FALSE
    /\ listeners' = [e \in TerminalEvents |-> {}]
    /\ UNCHANGED <<now, ticks, lsTokens, ncalls, issued, nflows, promise,
                   first, lastJwt, got, reqs, seen, want, auth>>

\* ------------------------------------------------------- specification
\* localStorage['tokens'] when the module is loaded: nothing, or the tokens
\* of an earlier session.
InitialStorage ==
    {<<>>} \cup {JSONStringify(Some(TokenSet(RefreshTokenOf(1), 1, e * 1000))) :
                    e \in ExpiresInSet}

\* localStorage['last_jwt'] when the module is loaded: nothing, a signed
\* token of an earlier session, or a string that does not verify.
StoredJwts ==
    {<<>>, <<"jwt_pro">>, <<"jwt_noexpiry">>, <<"jwt_unknownplan">>,
     <<"forged">>}

\* The state when the module has been loaded, with last_jwt one of `stored`.
InitWith(stored) ==
    /\ now = 0
    /\ ticks = 0
    /\ lsTokens \in InitialStorage
    /\ tokens = JSONParse(lsTokens)
    /\ tokenMutex = <<>>
    /\ awaiting = 0
    /\ inflight = {}
    /\ ncalls = 0
    /\ issued = IF lsTokens = <<>> THEN 0 ELSE 1
    /\ lockShown = FALSE
    /\ lockHiding = FALSE
    /\ listeners = [e \in TerminalEvents |-> {}]
    /\ promise = [f \in Flows |-> Unsettled]
    /\ nflows = 0
    /\ lastJwt \in stored
    /\ fetches = {}
    /\ got = NotGot
    /\ reqs = [c \in 1..MaxCalls |-> NotAsked]
    /\ restarts = 0
    /\ seen = NotSeen
    /\ want = [val |-> tokens, during |-> 0]
    /\ auth = NoAuth
    /\ first = [f \in Flows |-> [event |-> "", data |-> ""]]

\* A first run: no last_jwt has been stored yet.
Init == InitWith({<<>>})

\* Everything together.
Next ==
    \/ GetToken
    \/ RunGetToken
    \/ RunSetTokens
    \/ RefreshSucceeds
    \/ RefreshFails
    \/ Tick
    \/ showLoginDialog
    \/ Authenticated
    \/ Hide
    \/ WidgetError
    \/ UserDataLoaded
    \/ logOut
    \/ getLatestUserData
    \/ FetchAnswers
    \/ FetchFails
    \/ Restart

Spec == Init /\ [][Next]_vars

\* The token store and its users: getToken() calls, refreshes, the clock,
\* logins and logouts.  The events that only settle login promises are left
\* out, so the widget stays on screen once shown.
TokenNext ==
    \/ GetToken
    \/ RunGetToken
    \/ RunSetTokens
    \/ RefreshSucceeds
    \/ RefreshFails
    \/ Tick
    \/ showLoginDialog
    \/ Authenticated
    \/ logOut

TokenSpec == Init /\ [][TokenNext]_vars

\* The login flow: the widget's events, logins and logouts, without
\* getToken() calls.
LoginNext ==
    \/ showLoginDialog
    \/ Authenticated
    \/ Hide
    \/ WidgetError
    \/ UserDataLoaded
    \/ logOut
    \/ RunSetTokens
    \/ Tick

LoginSpec == Init /\ [][LoginNext]_vars

\* The token store across reloads: logins, logouts, getToken() calls and
\* refreshes at one instant, and reloads of the page.
StoreNext ==
    \/ showLoginDialog
    \/ Authenticated
    \/ logOut
    \/ RunSetTokens
    \/ GetToken
    \/ RunGetToken
    \/ RefreshSucceeds
    \/ RefreshFails
    \/ Restart

StoreSpec == Init /\ [][StoreNext]_vars

\* The token store at one instant, with the scheduling the code relies
\* on: a callback that holds the mutex and is not awaiting runs as the next
\* promise job, and every refresh request is answered.
LiveNext ==
    \/ GetToken
    \/ RunGetToken
    \/ RunSetTokens
    \/ RefreshSucceeds
    \/ RefreshFails
    \/ showLoginDialog
    \/ Authenticated
    \/ logOut

LiveSpec ==
    /\ Init
    /\ [][LiveNext]_vars
    /\ WF_vars(RunGetToken)
    /\ WF_vars(RunSetTokens)
    /\ WF_vars(RefreshSucceeds \/ RefreshFails)

\* getLatestUserData() calls on the tokens found in storage, while login
\* flows wait for the widget and the token endpoint is failing.
UserDataNext ==
    \/ showLoginDialog
    \/ Hide
    \/ WidgetError
    \/ getLatestUserData
    \/ RunGetToken
    \/ RefreshFails
    \/ FetchAnswers
    \/ FetchFails

UserDataSpec == Init /\ [][UserDataNext]_vars

\* getLatestUserData() calls in a session that finds any last_jwt in
\* storage, while a login flow listens on loginEvents and the token
\* endpoint is failing.
FetchNext ==
    \/ showLoginDialog
    \/ getLatestUserData
    \/ RunGetToken
    \/ RefreshFails
    \/ FetchAnswers
    \/ FetchFails

FetchSpec == InitWith(StoredJwts) /\ [][FetchNext]_vars

\* ------------------------------------------------------------ properties
NoSetQueued ==
    \A i \in DOMAIN tokenMutex : tokenMutex[i].op # "set"

\* C1: at most one token refresh request is in flight at any time.
AtMostOneRefreshInFlight == Cardinality(inflight) <= 1

\* C2: when logOut() was called while a getToken() call was awaiting its
\* refresh, then once that refresh has settled and the mutex queue has
\* drained, the TokenSet is null in memory and in durable storage.
LogoutDuringRefreshStaysLoggedOut ==
    (want.val = Null /\ want.during # 0 /\ tokenMutex = <<>>)
        => (tokens = Null /\ lsTokens # <<>> /\ JSONParse(lsTokens) = Null)

LogoutDuringRefreshWitness ==
    /\ want.val = Null /\ want.during # 0 /\ tokenMutex = <<>>
    /\ seen.call = want.during /\ seen.result.kind = "token"
    /\ tokens = Null

\* C3: a getToken() callback that finds a TokenSet with at most 5 seconds
\* left has no result while its refresh is unanswered; its result is then
\* the access token that refresh issued (never the cached one), or the
\* refresh error.
BlockingRefresh ==
    (seen.hadTokens /\ seen.tue <= 5 * 1000) =>
        /\ seen.sent = 1
        /\ ~seen.early
        /\ seen.result.kind = "pending" =>
              (awaiting = seen.call /\ \E r \in inflight : r.call = seen.call)
        /\ seen.result.kind # "pending" =>
              \/ seen.result.kind = "token" /\ seen.result.val > seen.cached
              \/ seen.result = Rejected("refresh_error")

BlockingRefreshWitness ==
    /\ seen.hadTokens /\ seen.tue = 5 * 1000
    /\ seen.result.kind = "token" /\ seen.result.val > seen.cached

\* C4: a getToken() callback that finds a TokenSet with more than 5 seconds
\* and less than 10 minutes left returns the cached access token while its
\* refresh is still unanswered, and sends exactly one refresh request.
BackgroundRefresh ==
    (seen.hadTokens /\ seen.tue > 5 * 1000 /\ seen.tue < 10 * 60 * 1000) =>
        /\ seen.result = Token(seen.cached)
        /\ seen.early
        /\ seen.sent = 1

BackgroundRefreshWitness ==
    /\ seen.hadTokens /\ seen.tue > 5 * 1000 /\ seen.tue < 10 * 60 * 1000
    /\ seen.result = Token(seen.cached)
    /\ \E r \in inflight : r.call = seen.call

\* C5: a getToken() callback sends no refresh request when there is no
\* TokenSet (the result is undefined) or when more than 10 minutes are left
\* (the result is the cached access token).
NoRefreshWhenLoggedOutOrFresh ==
    /\ (seen.call # 0 /\ ~seen.hadTokens) =>
           (seen.result = Undefined /\ seen.sent = 0)
    /\ (seen.hadTokens /\ seen.tue > 10 * 60 * 1000) =>
           (seen.result = Token(seen.cached) /\ seen.sent = 0)

NoRefreshWitness ==
    /\ seen.hadTokens /\ seen.tue > 10 * 60 * 1000
    /\ seen.result = Token(seen.cached) /\ seen.sent = 0

\* The flows started so far.
Started == 1..nflows

\* C6: once the store update of a login has run, the TokenSet in memory and
\* in storage is {refreshToken, accessToken, expiry = time of the
\* authenticated event + expiresIn seconds}; a login promise is resolved
\* true only when user_data_loaded was the first terminal event after its
\* showLoginDialog(), and then the widget has been told to hide.
LoginStoresTokensAndAwaitsUserData ==
    /\ (auth # NoAuth /\ want.val # Null /\ NoSetQueued) =>
          /\ tokens = Some(TokenSet(auth.refreshToken, auth.accessToken,
                                    auth.at + auth.expiresIn * 1000))
          /\ lsTokens = JSONStringify(tokens)
    /\ \A f \in Started :
          promise[f] = Resolved(TRUE) => first[f].event = "user_data_loaded"
    /\ (nflows > 0 /\ promise[nflows] = Resolved(TRUE)) => ~lockShown

LoginWitness ==
    /\ nflows > 0 /\ promise[nflows] = Resolved(TRUE) /\ ~lockShown
    /\ auth # NoAuth /\ auth.at > 0
    /\ tokens = Some(TokenSet(auth.refreshToken, auth.accessToken,
                              auth.at + auth.expiresIn * 1000))

\* C7: when 'hide' is the first terminal event emitted after a
\* showLoginDialog(), that step resolves the promise false, changes the
\* TokenSet neither in memory nor in storage, and queues no store update.
CancelledLogin ==
    [][\A f \in Flows :
          (first[f].event = "" /\ first'[f].event = "hide") =>
              /\ promise'[f] = Resolved(FALSE)
              /\ tokens' = tokens
              /\ lsTokens' = lsTokens
              /\ tokenMutex' = tokenMutex]_vars

CancelledLoginWitness ==
    /\ nflows > 0 /\ first[1].event = "hide" /\ promise[1] = Resolved(FALSE)
    /\ auth = NoAuth /\ tokens # Null /\ lsTokens = JSONStringify(tokens)

\* C9: the promise of every flow is pending until the first terminal event
\* after its showLoginDialog() and from then on holds the outcome of that
\* event, whatever is emitted later.
FirstTerminalEventWins ==
    \A f \in Started :
       promise[f] =
          CASE first[f].event = ""                 -> Unsettled
            [] first[f].event = "user_data_loaded" -> Resolved(TRUE)
            [] first[f].event = "hide"             -> Resolved(FALSE)
            [] OTHER                               -> RejectedBy(first[f].data)

\* A flow whose first terminal event was 'hide' after which
\* 'user_data_loaded' was emitted as well.
FirstTerminalEventWitness ==
    /\ nflows > 0 /\ first[1].event = "hide"
    /\ listeners["hide"] = {} /\ listeners["user_data_loaded"] = {}
    /\ auth # NoAuth
    /\ promise[1] = Resolved(FALSE)

\* C10: once the store update of a logOut() has run (no login asked for
\* since), the TokenSet is null in memory and in storage; a flow that has
\* seen no terminal event is still pending with all its listeners.
LogoutClearsStore ==
    /\ (want.val = Null /\ NoSetQueued) =>
          (tokens = Null /\ JSONParse(lsTokens) = Null)
    /\ \A f \in Started :
          first[f].event = "" =>
             (promise[f] = Unsettled /\ \A e \in TerminalEvents : f \in listeners[e])

LogoutWitness ==
    /\ want.val = Null /\ NoSetQueued /\ lsTokens = JSONStringify(Null)
    /\ auth # NoAuth
    /\ nflows > 0 /\ promise[nflows] = Unsettled

\* C8: when the first terminal event after a showLoginDialog() is
\* authorization_error or unrecoverable_error, from the widget or from a
\* failed getLatestUserData(), the promise is rejected with that error.
ErrorEventsReject ==
    \A f \in Started :
       first[f].event \in {"authorization_error", "unrecoverable_error"} =>
           promise[f] = RejectedBy(first[f].data)

\* A flow rejected with the refresh error of a failed getLatestUserData().
ErrorEventsRejectWitness ==
    /\ nflows > 0
    /\ first[1] = [event |-> "authorization_error", data |-> "refresh_error"]
    /\ got.failed
    /\ promise[1] = RejectedBy("refresh_error")

\* ------------------------------------------- getLatestUserData properties
\* The calls made so far; those of getLatestUserData() are observed in reqs.
Asking == 1..ncalls

\* The request of call c failed: its refresh or its fetch was rejected, or
\* the body it received is not a token signed for this application.
RequestFailed(c) ==
    \/ reqs[c].answer.kind \in {"refresh_error", "network_error"}
    \/ reqs[c].answer.kind = "body" /\ reqs[c].answer.body \notin GoodJwts \cup {""}

\* The error of a failed request.
FailureOf(c) ==
    IF reqs[c].answer.kind = "body" THEN "verify_error"
    ELSE reqs[c].answer.kind

\* The User a stored last_jwt decodes to: {} when it is absent, empty or
\* does not verify.
Decoded(jwt) ==
    IF jwt = <<>> \/ jwt[1] \notin GoodJwts
    THEN EmptyUser
    ELSE parseUserData(jwt).user

\* C11: when the request of a getLatestUserData() call failed (its blocking
\* refresh or its fetch was rejected, or the response did not verify), the
\* call returned the User decoded from last_jwt as it was when the call
\* started, and the error was reported and emitted as authorization_error:
\* every login promise pending then is rejected with it.
GetLatestUserDataDegrades ==
    (got.call # 0 /\ RequestFailed(got.call)) =>
        /\ got.failed
        /\ got.err = FailureOf(got.call)
        /\ got.user = Decoded(reqs[got.call].jwt)
        /\ \A f \in got.waiting : promise[f] = RejectedBy(got.err)

\* A call whose blocking refresh failed, made with a signed token in
\* storage while a login flow was pending.
GetLatestUserDataDegradesWitness ==
    /\ got.call # 0 /\ reqs[got.call].answer.kind = "refresh_error"
    /\ reqs[got.call].jwt = <<"jwt_pro">>
    /\ got.user.email = <<"pro">>
    /\ got.waiting = {1} /\ promise[1] = RejectedBy("refresh_error")

\* C12 as stated: last_jwt changes only in a step in which an authenticated
\* fetch answers with a body that verifies.
LastJwtOnlyAfterVerifiedFetch ==
    [][lastJwt' # lastJwt =>
          \E c \in Asking :
             /\ reqs[c].answer = NoAnswer
             /\ reqs'[c].answer.kind = "body"
             /\ reqs'[c].answer.body \in GoodJwts
             /\ lastJwt' = Some(reqs'[c].answer.body)]_vars

\* C12 as amended: last_jwt changes only in a step in which the request of
\* a call comes to a string that is empty (getToken() gave no access
\* token, or the response had no body) or verifies, and that string is
\* then stored; a failed request leaves last_jwt as it is.
LastJwtOnlyAfterParsed ==
    [][/\ lastJwt' # lastJwt =>
             \E c \in Asking :
                /\ reqs[c].answer = NoAnswer
                /\ reqs'[c].answer.kind \in {"no_token", "body"}
                /\ reqs'[c].answer.body \in GoodJwts \cup {""}
                /\ lastJwt' = Some(reqs'[c].answer.body)
       /\ \A c \in Asking :
             (reqs[c].answer = NoAnswer /\ RequestFailed(c)') =>
                 lastJwt' = lastJwt]_vars

\* A call of a logged-out session, made with a signed token in storage,
\* has ended: the empty string has replaced the token.
LastJwtWitness ==
    /\ got.call # 0 /\ ~got.failed
    /\ reqs[got.call].jwt = <<"jwt_pro">>
    /\ reqs[got.call].answer.kind = "no_token"
    /\ lastJwt = <<"">>

\* C13 as stated: a User a getLatestUserData() call returned has a
\* subscription only with an id, a plan code and an expiry, and the User
\* decoded from a signed token has its email.
NoPartialSubscription ==
    got.call # 0 =>
        /\ got.user.subscription # <<>> =>
              /\ got.user.subscription[1].id # 0
              /\ got.user.subscription[1].plan # ""
              /\ got.user.subscription[1].expiry.date # 0
        /\ (reqs[got.call].jwt # <<>> /\ reqs[got.call].jwt[1] \in GoodJwts
               /\ got.failed) => got.user.email # <<>>

\* ------------------------------------------------- token store properties
\* C14: in every state the TokenSet read back from localStorage equals the
\* TokenSet in memory (both null when logged out), and a reload of the
\* module yields in memory the TokenSet that was in memory before it.
PersistedEqualsInMemory ==
    /\ [](JSONParse(lsTokens) = tokens)
    /\ [][restarts' # restarts => tokens' = tokens]_vars

\* A reload after a login and a refresh of its access token.
PersistedEqualsInMemoryWitness ==
    /\ restarts > 0 /\ auth # NoAuth
    /\ tokens # Null
    /\ tokens[1].refreshToken = auth.refreshToken
    /\ tokens[1].accessToken > auth.accessToken
    /\ lsTokens = << << <<"refreshToken", tokens[1].refreshToken>>,
                        <<"accessToken", tokens[1].accessToken>>,
                        <<"accessTokenExpiry", tokens[1].accessTokenExpiry>> >> >>

\* C15 as stated: a step that changes the TokenSet, in memory or in
\* storage, is the store update of the setTokens() call holding the mutex
\* or the answer to the refresh of the getToken() call holding it; a
\* refresh request is sent by the callback of the call holding the mutex.
WritesUnderMutex ==
    [][/\ (tokens' # tokens \/ lsTokens' # lsTokens) =>
             \/ CanRun("set") /\ tokenMutex' = Release(tokenMutex)
             \/ \E r \in inflight \ inflight' : awaiting = r.call
       /\ \A r \in inflight' \ inflight :
             tokenMutex # <<>> /\ Head(tokenMutex).call = r.call]_vars

NoListenerAfterSettle ==
    \A f \in Started :
       promise[f] # Unsettled => \A e \in TerminalEvents : f \notin listeners[e]

\* C18 as stated: a step in which the answer to a refresh request changes
\* the TokenSet finds the TokenSet whose refresh token the request sent.
RefreshWritesItsOwnTokenSet ==
    [][\A r \in inflight \ inflight' :
          tokens' # tokens =>
              (tokens # Null /\ tokens[1].refreshToken = r.rt)]_vars

\* C20: a step in which a refresh request is answered with an error (no
\* access token is issued) leaves the TokenSet as it is in memory and in
\* storage.
FailedRefreshKeepsTokens ==
    [][(inflight' # inflight /\ inflight' \subseteq inflight
           /\ issued' = issued) =>
          (tokens' = tokens /\ lsTokens' = lsTokens)]_vars

\* A blocking refresh has failed and the session is still logged in with
\* the TokenSet the call found.
FailedRefreshKeepsTokensWitness ==
    /\ seen.result = Rejected("refresh_error")
    /\ tokens # Null /\ tokens[1].accessToken = seen.cached
    /\ tokens[1].accessTokenExpiry - now = seen.tue
    /\ JSONParse(lsTokens) = tokens

\* Call c is waiting for or holding the mutex.
Queued(c) == \E i \in DOMAIN tokenMutex : tokenMutex[i].call = c

\* C19: when every refresh request is answered, a getToken() call that
\* awaits its refresh stops awaiting, every getToken() call in the mutex
\* queue leaves it, and the queue, store updates included, is empty again
\* and again.
MutexEventuallyReleased ==
    /\ (awaiting # 0) ~> (awaiting = 0)
    /\ \A c \in 1..MaxCalls : Queued(c) ~> ~Queued(c)
    /\ []<>(tokenMutex = <<>>)

\* A logOut() made while a getToken() call awaited its refresh has run
\* after that refresh failed.
MutexEventuallyReleasedWitness ==
    /\ seen.result = Rejected("refresh_error")
    /\ want.val = Null /\ want.during = seen.call
    /\ tokenMutex = <<>> /\ tokens = Null

====
